---- MODULE Spec2Model ----
(***************************************************************************)
(* Log parsing and security-event aggregation of the coursework scripts:   *)
(*   week6/auth_scanner.py    key/value auth-log scanner                   *)
(*   week4/log_analyzer.py    firewall-log analyzer                        *)
(*   week4/threat_parser.py   threat-feed analysis (first variant)         *)
(*   week4/threats_parser.py  threat-feed analysis (second variant)        *)
(* Text lines are TLA+ strings; a Python dict whose order matters (a       *)
(* Counter) is a sequence of [key, count] records in insertion order.      *)
(***************************************************************************)
EXTENDS Integers, Sequences, FiniteSets, TLC

VARIABLES
    script,         \* which script's main program is running
    log_lines,      \* auth_scanner: the lines process_logs has consumed
    total_lines, parsed_lines, fail_count, user_counts, ip_counts,
    auth_pc,        \* "scan" | "built" | "done"
    report_data,    \* result of build_report_data
    text_report,    \* result of generate_human_report, a sequence of lines
    fw_lines,       \* log_analyzer: the lines parse_log_file has read
    log_entries,    \* log_analyzer: the entries parse_log_file has built
    fw_pc,          \* "parse" | "analyzed" | "displayed"
    analysis,       \* result of analyze_logs (what save_json_report dumps)
    printed,        \* the lines display_summary has printed
    threat_data,    \* threat parsers: the document load_threat_data returned
    threat_pc,      \* "load" | "loop" | "returned" | "raised" | "reported"
    threat_i,       \* number of threats the loop of analyze_threats has handled
    severity_counts, all_ips, active_exploits,
    severity_keys,  \* the keys of severity_counts in insertion order
    threat_analysis,\* result of analyze_threats
    threat_error,   \* the exception that ended the threat parser, "" when none
    report_lines    \* threat parsers: result of generate_report

auth_vars == <<log_lines, total_lines, parsed_lines, fail_count,
               user_counts, ip_counts, auth_pc, report_data, text_report>>

fw_vars == <<fw_lines, log_entries, fw_pc, analysis, printed>>

threat_vars == <<threat_data, threat_pc, threat_i, severity_counts, all_ips,
                 active_exploits, severity_keys, threat_analysis, threat_error,
                 report_lines>>

vars == <<script, auth_vars, fw_vars, threat_vars>>

(***************************************************************************)
(* Bounds                                                                  *)
(***************************************************************************)
MaxAuthLines == 3
MaxRankLines == 7
MaxFwLines == 3
MaxFwRankLines == 4
MaxThreats == 3

(***************************************************************************)
(* Python str primitives                                                   *)
(***************************************************************************)
CharAt(s, i) == SubSeq(s, i, i)

\* str.isspace for the characters of the model's alphabet
IsSpace(c) == c \in {" ", "\t", "\n"}

\* c in s
Contains(s, c) == \E i \in 1..Len(s) : CharAt(s, i) = c

\* s.split(): maximal runs of non-whitespace, in order
RECURSIVE SplitFrom(_, _, _, _)
SplitFrom(s, i, cur, acc) ==
    IF i > Len(s)
    THEN IF cur = "" THEN acc ELSE Append(acc, cur)
    ELSE IF IsSpace(CharAt(s, i))
         THEN SplitFrom(s, i + 1, "", IF cur = "" THEN acc ELSE Append(acc, cur))
         ELSE SplitFrom(s, i + 1, cur \o CharAt(s, i), acc)

Split(s) == SplitFrom(s, 1, "", <<>>)

\* s.strip() is empty
IsBlank(s) == \A i \in 1..Len(s) : IsSpace(CharAt(s, i))

\* s.strip()
RECURSIVE LStrip(_)
LStrip(s) == IF s # "" /\ IsSpace(CharAt(s, 1))
             THEN LStrip(SubSeq(s, 2, Len(s))) ELSE s

RECURSIVE RStrip(_)
RStrip(s) == IF s # "" /\ IsSpace(CharAt(s, Len(s)))
             THEN RStrip(SubSeq(s, 1, Len(s) - 1)) ELSE s

Strip(s) == RStrip(LStrip(s))

\* index of the first occurrence of c in s (c occurs in s)
FirstIndex(s, c) == CHOOSE i \in 1..Len(s) :
                        /\ CharAt(s, i) = c
                        /\ \A j \in 1..(i - 1) : CharAt(s, j) # c

\* item.split("=", 1) for an item that contains "="
SplitEq(item) ==
    LET p == FirstIndex(item, "=")
    IN  [key |-> SubSeq(item, 1, p - 1), value |-> SubSeq(item, p + 1, Len(item))]

(***************************************************************************)
(* week6/auth_scanner.py                                                   *)
(***************************************************************************)
\* dict.get(key): <<>> stands for None, <<v>> for a value
Get(d, k) == IF k \in DOMAIN d THEN <<d[k]>> ELSE <<>>

\* result[key] = value
DictSet(d, k, v) == [x \in (DOMAIN d) \cup {k} |-> IF x = k THEN v ELSE d[x]]

\* the loop over parts[2:]
RECURSIVE ParseItems(_, _, _)
ParseItems(parts, i, result) ==
    IF i > Len(parts) THEN result
    ELSE IF ~Contains(parts[i], "=") THEN ParseItems(parts, i + 1, result)
    ELSE LET kv == SplitEq(parts[i])
         IN  IF kv.key # "" /\ kv.value # ""
             THEN ParseItems(parts, i + 1, DictSet(result, kv.key, kv.value))
             ELSE ParseItems(parts, i + 1, result)

\* parse_log_line: <<>> is None, <<record>> a parsed record
parse_log_line(line) ==
    IF line = "" \/ IsBlank(line) THEN <<>>
    ELSE LET parts == Split(line)
         IN  IF Len(parts) < 3 THEN <<>>
             ELSE IF ~Contains(parts[1], "-") \/ ~Contains(parts[2], ":") THEN <<>>
             ELSE <<ParseItems(parts, 3,
                               [k \in {"timestamp"} |-> parts[1] \o " " \o parts[2]])>>

\* Counter: counter[key] += 1
HasKey(counter, k) == \E i \in 1..Len(counter) : counter[i].key = k

CounterInc(counter, k) ==
    IF HasKey(counter, k)
    THEN [i \in 1..Len(counter) |->
            IF counter[i].key = k
            THEN [key |-> k, count |-> counter[i].count + 1]
            ELSE counter[i]]
    ELSE Append(counter, [key |-> k, count |-> 1])

\* process_logs counting a line only once it has parsed
process_logs_step_count_late(line) ==
    LET parsed == parse_log_line(line)
        failed == parsed # <<>> /\ Get(parsed[1], "status") = <<"FAIL">>
        user   == IF parsed = <<>> THEN <<>> ELSE Get(parsed[1], "user")
        ip     == IF parsed = <<>> THEN <<>> ELSE Get(parsed[1], "ip")
    IN  /\ script = "auth_scanner"
        /\ auth_pc = "scan"
        /\ log_lines' = Append(log_lines, line)
        /\ total_lines' = IF parsed = <<>> THEN total_lines ELSE total_lines + 1
        /\ parsed_lines' = IF parsed = <<>> THEN parsed_lines ELSE parsed_lines + 1
        /\ fail_count' = IF failed THEN fail_count + 1 ELSE fail_count
        /\ user_counts' = IF failed /\ user # <<>> /\ user[1] # ""
                          THEN CounterInc(user_counts, user[1]) ELSE user_counts
        /\ ip_counts' = IF failed /\ ip # <<>> /\ ip[1] # ""
                        THEN CounterInc(ip_counts, ip[1]) ELSE ip_counts
        /\ UNCHANGED <<script, auth_pc, report_data, text_report, fw_vars, threat_vars>>

\* process_logs counting the user and the address of every parsed line
process_logs_step_count_any_status(line) ==
    LET parsed == parse_log_line(line)
        failed == parsed # <<>> /\ Get(parsed[1], "status") = <<"FAIL">>
        user   == IF parsed = <<>> THEN <<>> ELSE Get(parsed[1], "user")
        ip     == IF parsed = <<>> THEN <<>> ELSE Get(parsed[1], "ip")
    IN  /\ script = "auth_scanner"
        /\ auth_pc = "scan"
        /\ log_lines' = Append(log_lines, line)
        /\ total_lines' = total_lines + 1
        /\ parsed_lines' = IF parsed = <<>> THEN parsed_lines ELSE parsed_lines + 1
        /\ fail_count' = IF failed THEN fail_count + 1 ELSE fail_count
        /\ user_counts' = IF user # <<>> /\ user[1] # ""
                          THEN CounterInc(user_counts, user[1]) ELSE user_counts
        /\ ip_counts' = IF ip # <<>> /\ ip[1] # ""
                        THEN CounterInc(ip_counts, ip[1]) ELSE ip_counts
        /\ UNCHANGED <<script, auth_pc, report_data, text_report, fw_vars, threat_vars>>

\* one iteration of the for loop of process_logs
process_logs_step(line) ==
    LET parsed == parse_log_line(line)
        failed == parsed # <<>> /\ Get(parsed[1], "status") = <<"FAIL">>
        user   == IF parsed = <<>> THEN <<>> ELSE Get(parsed[1], "user")
        ip     == IF parsed = <<>> THEN <<>> ELSE Get(parsed[1], "ip")
    IN  /\ script = "auth_scanner"
        /\ auth_pc = "scan"
        /\ log_lines' = Append(log_lines, line)
        /\ total_lines' = total_lines + 1
        /\ parsed_lines' = IF parsed = <<>> THEN parsed_lines ELSE parsed_lines + 1
        /\ fail_count' = IF failed THEN fail_count + 1 ELSE fail_count
        /\ user_counts' = IF failed /\ user # <<>> /\ user[1] # ""
                          THEN CounterInc(user_counts, user[1]) ELSE user_counts
        /\ ip_counts' = IF failed /\ ip # <<>> /\ ip[1] # ""
                        THEN CounterInc(ip_counts, ip[1]) ELSE ip_counts
        /\ UNCHANGED <<script, auth_pc, report_data, text_report, fw_vars, threat_vars>>

\* Counter.most_common(n): heapq.nlargest(n, items, key=count), which is
\* sorted(items, key=count, reverse=True)[:n]; the sort is stable, so among
\* equal counts the item inserted first comes first.
\* a ranking that lets the item inserted last win a tie
LastMax(items) == CHOOSE i \in 1..Len(items) :
                      /\ \A j \in 1..Len(items) : items[j].count <= items[i].count
                      /\ \A j \in (i + 1)..Len(items) : items[j].count < items[i].count

FirstMax(items) == CHOOSE i \in 1..Len(items) :
                       /\ \A j \in 1..Len(items) : items[j].count <= items[i].count
                       /\ \A j \in 1..(i - 1) : items[j].count < items[i].count

RemoveAt(seq, i) == SubSeq(seq, 1, i - 1) \o SubSeq(seq, i + 1, Len(seq))

RECURSIVE most_common(_, _)
most_common(items, n) ==
    IF n = 0 \/ items = <<>> THEN <<>>
    ELSE LET i == FirstMax(items)
         IN  <<items[i]>> \o most_common(RemoveAt(items, i), n - 1)

TopN == 5

\* round(p / q) to the nearest integer, ties to even (p >= 0, q > 0)
RoundHalfEven(p, q) ==
    LET f == p \div q
        r == p % q
    IN  IF 2 * r < q THEN f
        ELSE IF 2 * r > q THEN f + 1
        ELSE IF f % 2 = 0 THEN f ELSE f + 1

\* a rate that falls back to 100 when there is nothing to divide by
RateFullWhenEmpty(fails, total) ==
    IF total > 0 THEN [num |-> fails * 100, den |-> total]
    ELSE [num |-> 100, den |-> 1]

\* (fails / total * 100) if total > 0 else 0, as the exact fraction num/den.
\* The float the program computes rounds like this fraction for every
\* total below 16 (no decimal tie that is not a binary fraction).
Rate(fails, total) ==
    IF total > 0 THEN [num |-> fails * 100, den |-> total]
    ELSE [num |-> 0, den |-> 1]

\* round(rate, 2), held as the number of hundredths of the result
Round2(rate) == RoundHalfEven(rate.num * 100, rate.den)

Digit(d) == CharAt("0123456789", d + 1)

\* str(n), n >= 0
RECURSIVE Decimal(_)
Decimal(n) == IF n < 10 THEN Digit(n) ELSE Decimal(n \div 10) \o Digit(n % 10)

\* f"{n:,}"
RECURSIVE Comma(_)
Comma(n) ==
    IF n < 1000 THEN Decimal(n)
    ELSE Comma(n \div 1000) \o "," \o Digit((n % 1000) \div 100)
                            \o Digit((n % 100) \div 10) \o Digit(n % 10)

\* f"{rate:.1f}"
Fixed1(rate) ==
    LET t == RoundHalfEven(rate.num * 10, rate.den)
    IN  Decimal(t \div 10) \o "." \o Digit(t % 10)

\* c * n
RECURSIVE Repeat(_, _)
Repeat(c, n) == IF n <= 0 THEN "" ELSE c \o Repeat(c, n - 1)

\* f"{s:w}" and f"{s:>w}"
PadRight(s, w) == s \o Repeat(" ", w - Len(s))
PadLeft(s, w) == Repeat(" ", w - Len(s)) \o s

AnalystName == "Tanya"

\* datetime.utcnow().isoformat()
UtcNow == {"2026-02-10T10:15:32.000001"}

build_report_data(now) ==
    LET total == parsed_lines
        fails == fail_count
        failure_rate == Rate(fails, total)
    IN  [metadata |-> [generated_at |-> now, analyst |-> AnalystName],
         summary |-> [total_logs |-> total_lines,
                      parsed_logs |-> parsed_lines,
                      failed_logins |-> fails,
                      failure_rate_percent |-> Round2(failure_rate)],
         top_users |-> [i \in 1..Len(most_common(user_counts, TopN)) |->
                          [user |-> most_common(user_counts, TopN)[i].key,
                           fail_count |-> most_common(user_counts, TopN)[i].count]],
         top_ips |-> [i \in 1..Len(most_common(ip_counts, TopN)) |->
                          [ip |-> most_common(ip_counts, TopN)[i].key,
                           fail_count |-> most_common(ip_counts, TopN)[i].count]]]

ReportRows(items) ==
    [i \in 1..Len(items) |->
        PadRight(items[i].key, 20) \o " " \o PadLeft(Comma(items[i].count), 10)]

generate_human_report(now) ==
    LET failure_rate == Rate(fail_count, parsed_lines)
        line == Repeat("=", 70)
    IN  <<line, "SECURITY LOG ANALYSIS REPORT", line,
          "METADATA", line,
          "Analyst:           " \o AnalystName,
          "Generated At:      " \o now,
          "",
          "SUMMARY", line,
          "Total Logs:        " \o Comma(total_lines),
          "Parsed Logs:       " \o Comma(parsed_lines),
          "Failed Logins:     " \o Comma(fail_count),
          "Failure Rate:      " \o Fixed1(failure_rate) \o "%",
          "",
          "TOP TARGETED USERS", line,
          PadRight("User", 20) \o " " \o PadLeft("Failures", 10),
          Repeat("-", 30)>>
        \o ReportRows(most_common(user_counts, TopN))
        \o <<"",
             "TOP ATTACKING IPS", line,
             PadRight("IP Address", 20) \o " " \o PadLeft("Failures", 10),
             Repeat("-", 30)>>
        \o ReportRows(most_common(ip_counts, TopN))
        \o <<"", line>>

\* main, step 3 done: stats = process_logs(log_lines) has returned
BuildReportData ==
    /\ script = "auth_scanner"
    /\ auth_pc = "scan"
    /\ \E now \in UtcNow : report_data' = build_report_data(now)
    /\ auth_pc' = "built"
    /\ UNCHANGED <<script, log_lines, total_lines, parsed_lines, fail_count,
                   user_counts, ip_counts, text_report, fw_vars, threat_vars>>

GenerateHumanReport ==
    /\ auth_pc = "built"
    /\ \E now \in UtcNow : text_report' = generate_human_report(now)
    /\ auth_pc' = "done"
    /\ UNCHANGED <<script, log_lines, total_lines, parsed_lines, fail_count,
                   user_counts, ip_counts, report_data, fw_vars, threat_vars>>

\* lines of the auth log file: well-formed, blank, short, badly shaped, odd items
AuthLines ==
    {"2025-01-01 09:00:00 user=admin ip=10.0.0.9 status=FAIL\n",
     "2025-01-01 09:00:01 user=bob ip=10.0.0.9 status=FAIL",
     "2025-01-01 09:00:02 user=admin ip=10.0.0.7 status=OK",
     "2025-01-01 09:00:03 status=FAIL",
     "2025-01-01 09:00:04 status=fail user=eve",
     "2025-01-01 09:00:05 timestamp=later status=FAIL user=bob",
     "2025-01-01 09:00:06 user= =x note status=FAIL=1",
     "",
     "  \t \n",
     "2025-01-01 09:00:07",
     "20250101 09:00:08 user=admin status=FAIL",
     "2025-01-01 090009 user=admin status=FAIL"}

\* A failed login of the n-th distinct user, from the n-th distinct address.
\* User names are opaque to the scanner, so the n-th new user of a run is
\* given the n-th name of RankNames (neither in nor against alphabetical order).
RankNames == "cafbed"
RankAddrs == "362514"

RankLine(n) == "1-1 0:0 status=FAIL user=" \o CharAt(RankNames, n)
                   \o " ip=" \o CharAt(RankAddrs, n)

\* load_log_file hands process_logs every line of the file, stripped
ProcessLine ==
    /\ total_lines < MaxAuthLines
    /\ \E line \in AuthLines : process_logs_step(Strip(line))

ProcessRankLine ==
    /\ total_lines < MaxRankLines
    /\ \E n \in 1..(TopN + 1) :
          /\ n <= Len(user_counts) + 1
          /\ process_logs_step(RankLine(n))


(***************************************************************************)
(* week4/log_analyzer.py                                                   *)
(***************************************************************************)
IsDigit(c) == c \in {"0", "1", "2", "3", "4", "5", "6", "7", "8", "9"}

DigitVal(c) == CHOOSE d \in 0..9 : Digit(d) = c

\* value of a string of digits and underscores, underscores skipped
RECURSIVE DigitsVal(_, _)
DigitsVal(s, acc) ==
    IF s = "" THEN acc
    ELSE IF CharAt(s, 1) = "_" THEN DigitsVal(SubSeq(s, 2, Len(s)), acc)
    ELSE DigitsVal(SubSeq(s, 2, Len(s)), acc * 10 + DigitVal(CharAt(s, 1)))

\* int(tok) for a token without whitespace: an optional sign, then digits
\* with single underscores between them; <<>> is ValueError, <<n>> the value
IntParse(tok) ==
    LET signed == tok # "" /\ CharAt(tok, 1) \in {"+", "-"}
        body   == IF signed THEN SubSeq(tok, 2, Len(tok)) ELSE tok
        wellFormed ==
            /\ body # ""
            /\ \A i \in 1..Len(body) :
                  \/ IsDigit(CharAt(body, i))
                  \/ /\ CharAt(body, i) = "_"
                     /\ i > 1 /\ i < Len(body)
                     /\ IsDigit(CharAt(body, i - 1))
                     /\ IsDigit(CharAt(body, i + 1))
    IN  IF ~wellFormed THEN <<>>
        ELSE IF signed /\ CharAt(tok, 1) = "-" THEN <<0 - DigitsVal(body, 0)>>
        ELSE <<DigitsVal(body, 0)>>

LowerCase == "abcdefghijklmnopqrstuvwxyz"
UpperCase == "ABCDEFGHIJKLMNOPQRSTUVWXYZ"

UpperChar(c) ==
    IF \E i \in 1..26 : CharAt(LowerCase, i) = c
    THEN CharAt(UpperCase, CHOOSE i \in 1..26 : CharAt(LowerCase, i) = c)
    ELSE c

\* s.upper()
RECURSIVE Upper(_)
Upper(s) == IF s = "" THEN ""
            ELSE UpperChar(CharAt(s, 1)) \o Upper(SubSeq(s, 2, Len(s)))

\* parse_log_file taking only lines of exactly six tokens
parse_log_file_step_six(entries, line) ==
    IF IsBlank(line) THEN entries
    ELSE LET parts == Split(Strip(line))
         IN  IF Len(parts) = 6
             THEN IF IntParse(parts[6]) = <<>> THEN entries
                  ELSE Append(entries,
                              [date |-> parts[1],
                               time |-> parts[2],
                               action |-> Upper(parts[3]),
                               source_ip |-> parts[4],
                               dest_ip |-> parts[5],
                               port |-> IntParse(parts[6])[1]])
             ELSE entries

\* one iteration of the for loop of parse_log_file: the entries after the line
parse_log_file_step(entries, line) ==
    IF IsBlank(line) THEN entries
    ELSE LET parts == Split(Strip(line))
         IN  IF Len(parts) >= 6
             THEN IF IntParse(parts[6]) = <<>> THEN entries
                  ELSE Append(entries,
                              [date |-> parts[1],
                               time |-> parts[2],
                               action |-> Upper(parts[3]),
                               source_ip |-> parts[4],
                               dest_ip |-> parts[5],
                               port |-> IntParse(parts[6])[1]])
             ELSE entries

\* s.split(c): the pieces between occurrences of c, empty pieces kept
RECURSIVE SplitOnFrom(_, _, _, _, _)
SplitOnFrom(s, c, i, cur, acc) ==
    IF i > Len(s) THEN Append(acc, cur)
    ELSE IF CharAt(s, i) = c THEN SplitOnFrom(s, c, i + 1, "", Append(acc, cur))
    ELSE SplitOnFrom(s, c, i + 1, cur \o CharAt(s, i), acc)

SplitOn(s, c) == SplitOnFrom(s, c, 1, "", <<>>)

AllDigits(s) == s # "" /\ \A i \in 1..Len(s) : IsDigit(CharAt(s, i))

\* a strptime numeric field of one or two digits with a value in lo..hi
Field12(s, lo, hi) ==
    /\ AllDigits(s) /\ Len(s) <= 2
    /\ DigitsVal(s, 0) >= lo /\ DigitsVal(s, 0) <= hi

IsLeap(y) == (y % 4 = 0 /\ y % 100 # 0) \/ y % 400 = 0

DaysIn(y, m) == IF m = 2 THEN (IF IsLeap(y) THEN 29 ELSE 28)
                ELSE IF m \in {4, 6, 9, 11} THEN 30 ELSE 31

\* datetime.strptime(f"{date} {time}", "%Y-%m-%d %H:%M:%S") for two tokens
\* without whitespace: <<>> is ValueError, <<dt>> the datetime as the tuple
\* <<year, month, day, hour, minute, second>>
strptime(date, time) ==
    LET d == SplitOn(date, "-")
        t == SplitOn(time, ":")
    IN  IF /\ Len(d) = 3 /\ Len(t) = 3
           /\ AllDigits(d[1]) /\ Len(d[1]) = 4 /\ DigitsVal(d[1], 0) >= 1
           /\ Field12(d[2], 1, 12)
           /\ Field12(d[3], 1, 31)
           /\ DigitsVal(d[3], 0) <= DaysIn(DigitsVal(d[1], 0), DigitsVal(d[2], 0))
           /\ Field12(t[1], 0, 23)
           /\ Field12(t[2], 0, 59)
           /\ Field12(t[3], 0, 59)
        THEN <<(<<DigitsVal(d[1], 0), DigitsVal(d[2], 0), DigitsVal(d[3], 0),
                  DigitsVal(t[1], 0), DigitsVal(t[2], 0), DigitsVal(t[3], 0)>>)>>
        ELSE <<>>

\* a < b for datetimes
RECURSIVE TupleLess(_, _, _)
TupleLess(a, b, i) ==
    IF i > Len(a) THEN FALSE
    ELSE IF a[i] # b[i] THEN a[i] < b[i]
    ELSE TupleLess(a, b, i + 1)

DtLess(a, b) == TupleLess(a, b, 1)

\* the timestamps left in the order of the entries
UnsortedDt(seq) == seq

\* list.sort() of datetimes
RECURSIVE SortDt(_)
SortDt(seq) ==
    IF seq = <<>> THEN <<>>
    ELSE LET i == CHOOSE k \in 1..Len(seq) :
                      /\ \A j \in 1..Len(seq) : ~DtLess(seq[j], seq[k])
                      /\ \A j \in 1..(k - 1) : DtLess(seq[k], seq[j])
         IN  <<seq[i]>> \o SortDt(RemoveAt(seq, i))

Pad2(n) == Digit(n \div 10) \o Digit(n % 10)

\* dt.strftime("%Y-%m-%d %H:%M:%S"); the year is written without padding
\* by the C library the interpreter runs on when it is below 1000
strftime(dt) ==
    Decimal(dt[1]) \o "-" \o Pad2(dt[2]) \o "-" \o Pad2(dt[3]) \o " "
        \o Pad2(dt[4]) \o ":" \o Pad2(dt[5]) \o ":" \o Pad2(dt[6])

\* the characters of the model's tokens in code-point order
Ascii == "+-./0123456789:=ABCDEFGHIJKLMNOPQRSTUVWXYZ_abcdefghijklmnopqrstuvwxyz"

\* position of c in code-point order (ord(c) up to a monotone renumbering)
Ord(c) == CHOOSE i \in 1..Len(Ascii) : CharAt(Ascii, i) = c

\* a < b for str
RECURSIVE StrLessFrom(_, _, _)
StrLessFrom(a, b, i) ==
    IF i > Len(a) THEN i <= Len(b)
    ELSE IF i > Len(b) THEN FALSE
    ELSE IF CharAt(a, i) # CharAt(b, i) THEN Ord(CharAt(a, i)) < Ord(CharAt(b, i))
    ELSE StrLessFrom(a, b, i + 1)

StrLess(a, b) == StrLessFrom(a, b, 1)

\* sorted(list(a set of str))
RECURSIVE SortedStrs(_)
SortedStrs(set) ==
    IF set = {} THEN <<>>
    ELSE LET m == CHOOSE x \in set : \A y \in set : ~StrLess(y, x)
         IN  <<m>> \o SortedStrs(set \ {m})

\* Counter(list): every element counted, keys in order of first occurrence
RECURSIVE CounterOf(_, _)
CounterOf(list, counter) ==
    IF list = <<>> THEN counter
    ELSE CounterOf(Tail(list), CounterInc(counter, Head(list)))

\* the accumulators of analyze_logs before its loop
AnalyzeInit == [allow_count |-> 0, deny_count |-> 0, denied_ips |-> {},
                denied_ports |-> <<>>, timestamps |-> <<>>]

\* the for loop of analyze_logs from entry i on
RECURSIVE AnalyzeLoop(_, _, _)
AnalyzeLoop(entries, i, acc) ==
    IF i > Len(entries) THEN acc
    ELSE LET entry == entries[i]
             dt == strptime(entry.date, entry.time)
             counted ==
                IF entry.action = "ALLOW"
                THEN [acc EXCEPT !.allow_count = @ + 1]
                ELSE IF entry.action = "DENY"
                THEN [acc EXCEPT !.deny_count = @ + 1,
                                 !.denied_ips = @ \cup {entry.source_ip},
                                 !.denied_ports = Append(@, entry.port)]
                ELSE acc
         IN  AnalyzeLoop(entries, i + 1,
                IF dt = <<>> THEN counted
                ELSE [counted EXCEPT !.timestamps = Append(@, dt[1])])

analyze_logs(entries) ==
    LET acc == AnalyzeLoop(entries, 1, AnalyzeInit)
        port_counter == CounterOf(acc.denied_ports, <<>>)
        top == most_common(port_counter, 1)
        timestamps == SortDt(acc.timestamps)
    IN  [total_entries |-> Len(entries),
         allow_count |-> acc.allow_count,
         deny_count |-> acc.deny_count,
         denied_source_ips |-> SortedStrs(acc.denied_ips),
         most_targeted_port |-> IF port_counter # <<>> THEN <<top[1].key>> ELSE <<>>,
         most_targeted_count |-> IF port_counter # <<>> THEN top[1].count ELSE 0,
         time_range |->
            [first |-> IF timestamps # <<>> THEN strftime(timestamps[1]) ELSE "N/A",
             last |-> IF timestamps # <<>>
                      THEN strftime(timestamps[Len(timestamps)]) ELSE "N/A"]]

\* str(n)
IntStr(n) == IF n < 0 THEN "-" \o Decimal(0 - n) ELSE Decimal(n)

\* the lines display_summary prints
display_summary(a) ==
    LET total == a.total_entries
        deny_pct == Rate(a.deny_count, total)
        rule == Repeat("=", 70)
    IN  <<rule, "FIREWALL LOG ANALYSIS SUMMARY", rule, "",
          "Total Log Entries: " \o IntStr(a.total_entries),
          "",
          "ALLOW actions: " \o IntStr(a.allow_count),
          "DENY actions:  " \o IntStr(a.deny_count),
          "(" \o Fixed1(deny_pct) \o "% of traffic was denied)",
          "",
          "Unique denied source IPs: " \o IntStr(Len(a.denied_source_ips))>>
        \o [i \in 1..Len(a.denied_source_ips) |-> " - " \o a.denied_source_ips[i]]
        \o <<"">>
        \o (IF a.most_targeted_port # <<>> /\ a.most_targeted_port[1] # 0
            THEN <<"Most targeted port: " \o IntStr(a.most_targeted_port[1]),
                   "Attacked " \o IntStr(a.most_targeted_count) \o " times",
                   "">>
            ELSE <<>>)
        \o <<"Time range:",
             "First entry: " \o a.time_range.first,
             "Last entry:  " \o a.time_range.last,
             rule>>

\* lines of firewall.log
FwLines ==
    {"2026-02-10 10:15:32 ALLOW 192.168.1.10 10.0.0.5 80\n",
     "2026-02-10 10:16:01 DENY 203.0.113.5 10.0.0.5 22\n",
     "2026-02-10 10:14:45 deny 198.51.100.9 10.0.0.5 0\n",
     "2026-02-10 10:18:03 DENY 198.51.100.9 10.0.0.5 -22\n",
     "2025-01-01 DENY 10.0.0.1\n",
     "2026-02-10 10:17:12 ALLOW 192.168.1.15 10.0.0.5 https\n",
     "\n",
     "2026-02-30 10:19:00 Deny 203.0.113.5 10.0.0.5 22 extra",
     "2026-2-9 7:05:09 DROP 203.0.113.5 10.0.0.5 +4_4_3\n"}

\* denied and allowed connections to three ports
FwRankLines ==
    {"2026-02-10 10:16:01 DENY 10.0.0.1 10.0.0.5 80",
     "2026-02-10 10:16:02 DENY 10.0.0.2 10.0.0.5 22",
     "2026-02-10 10:16:03 DENY 10.0.0.3 10.0.0.5 443",
     "2026-02-10 10:16:04 ALLOW 10.0.0.4 10.0.0.5 22"}

ReadFwLine(line) ==
    /\ script = "log_analyzer"
    /\ fw_pc = "parse"
    /\ fw_lines' = Append(fw_lines, line)
    /\ log_entries' = parse_log_file_step(log_entries, line)
    /\ UNCHANGED <<script, fw_pc, analysis, printed, auth_vars, threat_vars>>

ParseLogFile ==
    /\ Len(fw_lines) < MaxFwLines
    /\ \E line \in FwLines : ReadFwLine(line)

ParseRankLogFile ==
    /\ Len(fw_lines) < MaxFwRankLines
    /\ \E line \in FwRankLines : ReadFwLine(line)

AnalyzeLogs ==
    /\ script = "log_analyzer"
    /\ fw_pc = "parse"
    /\ analysis' = analyze_logs(log_entries)
    /\ fw_pc' = "analyzed"
    /\ UNCHANGED <<script, fw_lines, log_entries, printed, auth_vars, threat_vars>>

DisplaySummary ==
    /\ script = "log_analyzer"
    /\ fw_pc = "analyzed"
    /\ printed' = display_summary(analysis)
    /\ fw_pc' = "displayed"
    /\ UNCHANGED <<script, fw_lines, log_entries, analysis, auth_vars, threat_vars>>

(***************************************************************************)
(* week4/threat_parser.py and week4/threats_parser.py                      *)
(* A JSON value is a record tagged by its type: [t |-> "str", s |-> ..],   *)
(* [t |-> "bool", b |-> ..], [t |-> "num", n |-> ..], [t |-> "null"],      *)
(* [t |-> "list", items |-> <<..>>], [t |-> "dict", d |-> [key |-> ..]].   *)
(* A JSON object is a function from its keys to such values.               *)
(***************************************************************************)
Str(x) == [t |-> "str", s |-> x]
Bool(x) == [t |-> "bool", b |-> x]
Num(x) == [t |-> "num", n |-> x]
Null == [t |-> "null"]
List(x) == [t |-> "list", items |-> x]
Dict(x) == [t |-> "dict", d |-> x]
EmptyObject == [k \in {} |-> Null]

\* bool(v)
Truthy(v) ==
    CASE v.t = "bool" -> v.b
      [] v.t = "str" -> v.s # ""
      [] v.t = "num" -> v.n # 0
      [] v.t = "null" -> FALSE
      [] v.t = "list" -> v.items # <<>>
      [] v.t = "dict" -> DOMAIN v.d # {}

\* obj.get(key, default)
GetOr(obj, key, default) == IF key \in DOMAIN obj THEN obj[key] ELSE default

\* threat.get('indicators', {}).get('ips', []): [err |-> e] when the call
\* raises, [err |-> "", ips |-> v] otherwise
IndicatorIps(threat) ==
    LET indicators == GetOr(threat, "indicators", Dict(EmptyObject))
    IN  IF indicators.t # "dict" THEN [err |-> "AttributeError"]
        ELSE [err |-> "", ips |-> GetOr(indicators.d, "ips", List(<<>>))]

Range(seq) == {seq[i] : i \in 1..Len(seq)}

\* severity_counts[key] = severity_counts.get(key, 0) + 1
CountInc(counts, key) ==
    [k \in (DOMAIN counts) \cup {key} |->
        IF k = key THEN (IF key \in DOMAIN counts THEN counts[key] + 1 ELSE 1)
        ELSE counts[k]]

\* the keys of a dict after an assignment to dict[key]
KeysInc(keys, key) ==
    IF \E i \in 1..Len(keys) : keys[i] = key THEN keys ELSE Append(keys, key)

\* threat_parser.py: the elements set.update(ips) adds, or the error it raises
UpdateItems(ips) ==
    CASE ips.t = "list" -> [err |-> "", items |-> Range(ips.items)]
      [] ips.t = "str" -> [err |-> "", items |-> {CharAt(ips.s, i) : i \in 1..Len(ips.s)}]
      [] ips.t = "dict" -> [err |-> "", items |-> DOMAIN ips.d]
      [] OTHER -> [err |-> "TypeError"]

\* the entry appended to active_exploits
Exploit(threat, noId, noType) ==
    [id |-> GetOr(threat, "id", Str(noId)),
     type |-> GetOr(threat, "type", Str(noType)),
     description |-> GetOr(threat, "description", Str("No description"))]

\* a lookup of the threats that falls back to one placeholder threat
ThreatsOfPlaceholder(doc) == GetOr(doc, "threats", <<[id |-> Str("T-0")]>>)

\* threat_data.get('threats', [])
ThreatsOf(doc) == GetOr(doc, "threats", <<>>)

\* threat_parser.py, analyze_threats: one iteration of the for loop
ThreatParserStep ==
    /\ script = "threat_parser"
    /\ threat_pc = "loop"
    /\ threat_i < Len(ThreatsOf(threat_data))
    /\ LET threat == ThreatsOf(threat_data)[threat_i + 1]
           severity == GetOr(threat, "severity", Str("UNKNOWN"))
           ips == IndicatorIps(threat)
           added == IF ips.err = "" THEN UpdateItems(ips.ips) ELSE ips
       IN  /\ severity_counts' = CountInc(severity_counts, severity.s)
           /\ severity_keys' = KeysInc(severity_keys, severity.s)
           /\ IF added.err # ""
              THEN /\ threat_pc' = "raised"
                   /\ threat_error' = added.err
                   /\ UNCHANGED <<threat_i, all_ips, active_exploits>>
              ELSE /\ all_ips' = all_ips \cup added.items
                   /\ active_exploits' =
                        IF Truthy(GetOr(threat, "active_exploit", Bool(FALSE)))
                        THEN Append(active_exploits, Exploit(threat, "N/A", "N/A"))
                        ELSE active_exploits
                   /\ threat_i' = threat_i + 1
                   /\ UNCHANGED <<threat_pc, threat_error>>
    /\ UNCHANGED <<script, threat_data, threat_analysis, report_lines,
                   auth_vars, fw_vars>>

\* threat_parser.py, analyze_threats: after the loop
ThreatParserReturn ==
    /\ script = "threat_parser"
    /\ threat_pc = "loop"
    /\ threat_i = Len(ThreatsOf(threat_data))
    /\ LET total_threats == Len(ThreatsOf(threat_data))
       IN  threat_analysis' =
             [total_threats |-> total_threats,
              severity_counts |-> severity_counts,
              unique_ips |-> SortedStrs(all_ips),
              total_ips |-> Cardinality(all_ips),
              active_exploits |-> active_exploits,
              critical_percentage |->
                 Rate(GetOr(severity_counts, "CRITICAL", 0), total_threats)]
    /\ threat_pc' = "returned"
    /\ UNCHANGED <<script, threat_data, threat_i, severity_counts, all_ips,
                   active_exploits, severity_keys, threat_error, report_lines,
                   auth_vars, fw_vars>>

\* threats_parser.py: list(set(all_ips)) is the distinct elements in an
\* order the interpreter's string hashing decides: any order may come out

\* all the sequences that list each element of set once
RECURSIVE Orderings(_)
Orderings(set) ==
    IF set = {} THEN {<<>>}
    ELSE UNION {{<<x>> \o rest : rest \in Orderings(set \ {x})} : x \in set}

\* threats_parser.py, analyze_threats: one iteration of the for loop
ThreatsParserStep ==
    /\ script = "threats_parser"
    /\ threat_pc = "loop"
    /\ threat_i < Len(ThreatsOf(threat_data))
    /\ LET threat == ThreatsOf(threat_data)[threat_i + 1]
           raw == GetOr(threat, "severity", Str("LOW"))
           ips == IndicatorIps(threat)
       IN  IF raw.t # "str"
           THEN /\ threat_pc' = "raised"
                /\ threat_error' = "AttributeError"
                /\ UNCHANGED <<threat_i, severity_counts, severity_keys,
                               all_ips, active_exploits>>
           ELSE /\ severity_counts' = CountInc(severity_counts, Upper(raw.s))
                /\ severity_keys' = KeysInc(severity_keys, Upper(raw.s))
                /\ IF ips.err # ""
                   THEN /\ threat_pc' = "raised"
                        /\ threat_error' = ips.err
                        /\ UNCHANGED <<threat_i, all_ips, active_exploits>>
                   ELSE /\ all_ips' = IF ips.ips.t = "list"
                                      THEN all_ips \o ips.ips.items
                                      ELSE all_ips
                        /\ active_exploits' =
                             IF Truthy(GetOr(threat, "active_exploit", Bool(FALSE)))
                             THEN Append(active_exploits,
                                         Exploit(threat, "UNKNOWN", "unknown"))
                             ELSE active_exploits
                        /\ threat_i' = threat_i + 1
                        /\ UNCHANGED <<threat_pc, threat_error>>
    /\ UNCHANGED <<script, threat_data, threat_analysis, report_lines,
                   auth_vars, fw_vars>>

\* threats_parser.py, analyze_threats: after the loop
ThreatsParserReturn ==
    /\ script = "threats_parser"
    /\ threat_pc = "loop"
    /\ threat_i = Len(ThreatsOf(threat_data))
    /\ LET total_threats == Len(ThreatsOf(threat_data))
       IN  \E unique \in Orderings(Range(all_ips)) :
             threat_analysis' =
               [total_threats |-> total_threats,
                severity_counts |-> severity_counts,
                unique_ips |-> unique,
                total_ips |-> Len(all_ips),
                active_exploits |-> active_exploits,
                critical_percentage |->
                   Rate(severity_counts["CRITICAL"], total_threats)]
    /\ threat_pc' = "returned"
    /\ UNCHANGED <<script, threat_data, threat_i, severity_counts, all_ips,
                   active_exploits, severity_keys, threat_error, report_lines,
                   auth_vars, fw_vars>>

\* elements of the threats list of a feed
Threats ==
    {[id |-> Str("T-1"), type |-> Str("malware"), severity |-> Str("CRITICAL"),
      description |-> Str("Ransomware"), active_exploit |-> Bool(TRUE),
      indicators |-> Dict([ips |-> List(<<"203.0.113.5", "198.51.100.9">>)])],
     [id |-> Str("T-2"), severity |-> Str("high"), active_exploit |-> Bool(FALSE),
      indicators |-> Dict([ips |-> List(<<"203.0.113.5">>)])],
     [id |-> Str("T-3"), severity |-> Str("HIGH"),
      indicators |-> Dict(EmptyObject)],
     [id |-> Str("T-4"), severity |-> Str("LOW")],
     [id |-> Str("T-5"), active_exploit |-> Str("no"),
      indicators |-> Dict([ips |-> Str("10.0.0.1")])],
     [id |-> Str("T-6"), severity |-> Str("LOW"), active_exploit |-> Null,
      indicators |-> Dict([ips |-> Null])],
     [type |-> Str("phishing"), severity |-> Str("Medium"),
      active_exploit |-> Num(1), indicators |-> Dict([ips |-> List(<<>>)])]}

RECURSIVE SeqsUpTo(_, _)
SeqsUpTo(set, n) ==
    IF n = 0 THEN {<<>>}
    ELSE SeqsUpTo(set, n - 1)
           \cup {Append(q, x) : q \in {r \in SeqsUpTo(set, n - 1) : Len(r) = n - 1},
                                x \in set}

\* the documents load_threat_data may return: with or without a threats key
ThreatDocs ==
    {[feed_name |-> Str("Feed"), date |-> Str("2026-02-10")]}
      \cup {[feed_name |-> Str("Feed"), threats |-> ts] :
                ts \in SeqsUpTo(Threats, MaxThreats)}

\* main: threat_data = load_threat_data(..), then analyze_threats up to its loop
LoadThreatData ==
    /\ script \in {"threat_parser", "threats_parser"}
    /\ threat_pc = "load"
    /\ \E doc \in ThreatDocs : threat_data' = doc
    /\ severity_counts' = IF script = "threat_parser"
                          THEN [k \in {} |-> 0]
                          ELSE [k \in {"CRITICAL", "HIGH", "MEDIUM", "LOW"} |-> 0]
    /\ severity_keys' = IF script = "threat_parser"
                        THEN <<>>
                        ELSE <<"CRITICAL", "HIGH", "MEDIUM", "LOW">>
    /\ all_ips' = IF script = "threat_parser" THEN {} ELSE <<>>
    /\ active_exploits' = <<>>
    /\ threat_pc' = "loop"
    /\ UNCHANGED <<script, threat_i, threat_analysis, threat_error,
                   report_lines, auth_vars, fw_vars>>

\* f"{v}" of a JSON scalar
Show(v) ==
    CASE v.t = "str" -> v.s
      [] v.t = "num" -> IntStr(v.n)
      [] v.t = "bool" -> IF v.b THEN "True" ELSE "False"
      [] v.t = "null" -> "None"

\* datetime.now().strftime('%Y-%m-%d %H:%M:%S')
LocalNow == {"2026-02-10 10:15:32"}

\* the head of both reports, up to the blank line after the generation time
ReportHead(doc, now) ==
    <<Repeat("=", 70), "THREAT INTELLIGENCE ANALYSIS REPORT", Repeat("=", 70),
      "Feed: " \o Show(GetOr(doc, "feed_name", Str("Unknown"))),
      "Date: " \o Show(GetOr(doc, "date", Str("Unknown"))),
      "Generated: " \o now,
      "">>

\* a section title between two dashed rules
Section(title) == <<Repeat("-", 70), title, Repeat("-", 70)>>

\* the two lines of each active exploit; exploit['type'].upper() needs a str
RECURSIVE ExploitLines(_)
ExploitLines(exploits) ==
    IF exploits = <<>> THEN <<>>
    ELSE LET exploit == Head(exploits)
         IN  <<"\n" \o Show(exploit.id) \o " (" \o Upper(exploit.type.s) \o ")",
               "  Description: " \o Show(exploit.description)>>
             \o ExploitLines(Tail(exploits))

\* the for loop over severity_order of threat_parser.py
RECURSIVE SeverityLines(_, _)
SeverityLines(order, counts) ==
    IF order = <<>> THEN <<>>
    ELSE LET severity == Head(order)
             count == GetOr(counts, severity, 0)
         IN  (IF count > 0
              THEN <<PadRight(severity, 10) \o ": " \o IntStr(count) \o " threats">>
              ELSE <<>>)
             \o SeverityLines(Tail(order), counts)

\* the for loop over severity_counts.items() of threats_parser.py
RECURSIVE SeverityPercentLines(_, _, _)
SeverityPercentLines(keys, counts, total) ==
    IF keys = <<>> THEN <<>>
    ELSE LET severity == Head(keys)
             count == counts[severity]
             percent == Rate(count, total)
         IN  <<PadRight(severity, 10) \o ": " \o IntStr(count) \o " threats ("
                 \o Fixed1(percent) \o "%)">>
             \o SeverityPercentLines(Tail(keys), counts, total)

IpLines(ips) == [i \in 1..Len(ips) |-> "  - " \o ips[i]]

ReportTail == <<"", Repeat("=", 70), "END OF REPORT", Repeat("=", 70)>>

\* threat_parser.py, generate_report
threat_parser_generate_report(doc, a, now) ==
    ReportHead(doc, now)
      \o Section("SUMMARY STATISTICS")
      \o <<"Total Threats: " \o IntStr(a.total_threats),
           "Total Unique Malicious IPs: " \o IntStr(a.total_ips),
           "Active Exploits: " \o IntStr(Len(a.active_exploits)),
           "">>
      \o Section("SEVERITY BREAKDOWN")
      \o SeverityLines(<<"CRITICAL", "HIGH", "MEDIUM", "LOW", "UNKNOWN">>,
                       a.severity_counts)
      \o <<"\nCRITICAL threats: " \o Fixed1(a.critical_percentage) \o "%", "">>
      \o Section("MALICIOUS IP ADDRESSES")
      \o IpLines(a.unique_ips)
      \o <<"">>
      \o Section("ACTIVE EXPLOITS (IMMEDIATE ATTENTION REQUIRED)")
      \o ExploitLines(a.active_exploits)
      \o ReportTail

\* threats_parser.py, generate_report
threats_parser_generate_report(doc, a, keys, now) ==
    ReportHead(doc, now)
      \o Section("SUMMARY STATISTICS")
      \o <<"Total Threats: " \o IntStr(a.total_threats),
           "Total Malicious IPs: " \o IntStr(a.total_ips),
           "Unique IPs: " \o IntStr(Len(a.unique_ips)),
           "Active Exploits: " \o IntStr(Len(a.active_exploits)),
           "">>
      \o Section("SEVERITY BREAKDOWN")
      \o SeverityPercentLines(keys, a.severity_counts, a.total_threats)
      \o <<"">>
      \o Section("MALICIOUS IP ADDRESSES")
      \o IpLines(SortedStrs(Range(a.unique_ips)))
      \o <<"">>
      \o Section("ACTIVE EXPLOITS")
      \o (IF a.active_exploits # <<>>
          THEN ExploitLines(a.active_exploits)
          ELSE <<"None found.">>)
      \o ReportTail

\* generate_report raises when an active exploit's type is not a str
ReportRaises(a) ==
    \E i \in 1..Len(a.active_exploits) : a.active_exploits[i].type.t # "str"

\* threat_parser.py, main: generate_report(threat_data, analysis, ..)
ThreatParserReport ==
    /\ script = "threat_parser"
    /\ threat_pc = "returned"
    /\ IF ReportRaises(threat_analysis)
       THEN /\ threat_pc' = "raised"
            /\ threat_error' = "AttributeError"
            /\ UNCHANGED report_lines
       ELSE /\ \E now \in LocalNow :
                 report_lines' =
                    threat_parser_generate_report(threat_data, threat_analysis, now)
            /\ threat_pc' = "reported"
            /\ UNCHANGED threat_error
    /\ UNCHANGED <<script, threat_data, threat_i, severity_counts, all_ips,
                   active_exploits, severity_keys, threat_analysis,
                   auth_vars, fw_vars>>

\* threats_parser.py, main: generate_report(threat_data, analysis, ..)
ThreatsParserReport ==
    /\ script = "threats_parser"
    /\ threat_pc = "returned"
    /\ IF ReportRaises(threat_analysis)
       THEN /\ threat_pc' = "raised"
            /\ threat_error' = "AttributeError"
            /\ UNCHANGED report_lines
       ELSE /\ \E now \in LocalNow :
                 report_lines' =
                    threats_parser_generate_report(threat_data, threat_analysis,
                                                   severity_keys, now)
            /\ threat_pc' = "reported"
            /\ UNCHANGED threat_error
    /\ UNCHANGED <<script, threat_data, threat_i, severity_counts, all_ips,
                   active_exploits, severity_keys, threat_analysis,
                   auth_vars, fw_vars>>

(***************************************************************************)
(* Specifications                                                          *)
(***************************************************************************)
Scripts == {"auth_scanner", "log_analyzer", "threat_parser", "threats_parser"}

Init ==
    /\ script \in Scripts
    /\ log_lines = <<>>
    /\ total_lines = 0
    /\ parsed_lines = 0
    /\ fail_count = 0
    /\ user_counts = <<>>
    /\ ip_counts = <<>>
    /\ auth_pc = "scan"
    /\ report_data = <<>>
    /\ text_report = <<>>
    /\ fw_lines = <<>>
    /\ log_entries = <<>>
    /\ fw_pc = "parse"
    /\ analysis = <<>>
    /\ printed = <<>>
    /\ threat_data = <<>>
    /\ threat_pc = "load"
    /\ threat_i = 0
    /\ severity_counts = <<>>
    /\ all_ips = <<>>
    /\ active_exploits = <<>>
    /\ severity_keys = <<>>
    /\ threat_analysis = <<>>
    /\ threat_error = ""
    /\ report_lines = <<>>

\* each script on arbitrary input
Next == \/ ProcessLine \/ BuildReportData \/ GenerateHumanReport
        \/ ParseLogFile \/ AnalyzeLogs \/ DisplaySummary
        \/ LoadThreatData
        \/ ThreatParserStep \/ ThreatParserReturn
        \/ ThreatsParserStep \/ ThreatsParserReturn
        \/ ThreatParserReport \/ ThreatsParserReport

Spec == Init /\ [][Next]_vars

\* the rankings: many distinct users, addresses and ports
NextRank == \/ ProcessRankLine \/ BuildReportData
            \/ ParseRankLogFile \/ AnalyzeLogs

SpecRank == Init /\ [][NextRank]_vars

(***************************************************************************)
(* Properties                                                              *)
(***************************************************************************)
Min(a, b) == IF a < b THEN a ELSE b

\* parse_log_line of every auth line consumed so far
RECURSIVE ParseAll(_)
ParseAll(lines) ==
    IF lines = <<>> THEN <<>>
    ELSE <<parse_log_line(Head(lines))>> \o ParseAll(Tail(lines))

\* the firewall lines read so far that yield an entry on their own
EntryLines == {i \in 1..Len(fw_lines) : parse_log_file_step(<<>>, fw_lines[i]) # <<>>}

\* C1: after any number of input lines, parsed plus rejected lines equals the
\* number of lines: total_lines counts every line, parsed_lines exactly the
\* lines parse_log_line accepts; the firewall parser has one entry per line
\* it accepts.
C1_LineAccounting ==
    /\ script = "auth_scanner" =>
          LET recs == ParseAll(log_lines)
              accepted == {i \in 1..Len(recs) : recs[i] # <<>>}
              rejected == {i \in 1..Len(recs) : recs[i] = <<>>}
          IN  /\ total_lines = Len(log_lines)
              /\ parsed_lines = Cardinality(accepted)
              /\ parsed_lines + Cardinality(rejected) = total_lines
    /\ script = "log_analyzer" =>
          LET rejected == (1..Len(fw_lines)) \ EntryLines
          IN  /\ Len(log_entries) = Cardinality(EntryLines)
              /\ Len(log_entries) + Cardinality(rejected) = Len(fw_lines)

C1_Witness ==
    /\ script = "auth_scanner"
    /\ total_lines = 3
    /\ parsed_lines = 1
    /\ \E i \in 1..3 : log_lines[i] = ""
    /\ \E i \in 1..3 : log_lines[i] # "" /\ parse_log_line(log_lines[i]) = <<>>

\* the lines among the parsed records recs that are failed logins with
\* field = value
FailLinesOf(recs, field, value) ==
    {i \in 1..Len(recs) :
        /\ recs[i] # <<>>
        /\ Get(recs[i][1], "status") = <<"FAIL">>
        /\ Get(recs[i][1], field) = <<value>>}

FirstOf(set) == CHOOSE i \in set : \A j \in set : i <= j

\* x ranks before y: more occurrences, or as many and seen first
RanksBefore(x, y) ==
    \/ Cardinality(x) > Cardinality(y)
    \/ Cardinality(x) = Cardinality(y) /\ FirstOf(x) < FirstOf(y)

\* top, a list of [key, count], is the ranking of the categories of counter
\* by the occurrences occ[key] in the input: at most n entries, counts as
\* observed, listed in rank order, nothing left out that ranks before a
\* listed entry
IsRanking(top, counter, occ, n) ==
    /\ Len(top) = Min(n, Len(counter))
    /\ \A i \in 1..Len(top) :
          /\ top[i].key \in DOMAIN occ
          /\ occ[top[i].key] # {}
          /\ top[i].count = Cardinality(occ[top[i].key])
    /\ \A i, j \in 1..Len(top) :
          i < j => RanksBefore(occ[top[i].key], occ[top[j].key])
    /\ \A i \in 1..Len(top), k \in 1..Len(counter) :
          (\A j \in 1..Len(top) : top[j].key # counter[k].key)
             => RanksBefore(occ[top[i].key], occ[counter[k].key])

\* the denied entries with port p
DeniedWithPort(p) ==
    {i \in 1..Len(log_entries) :
        log_entries[i].action = "DENY" /\ log_entries[i].port = p}

DeniedPorts == {log_entries[i].port :
                    i \in {j \in 1..Len(log_entries) : log_entries[j].action = "DENY"}}

\* C2: the rankings list at most 5 users / addresses (1 port) by count
\* descending, a tie going to the category seen first in the input; every
\* category left out ranks after every category listed.
C2_Ranking ==
    /\ auth_pc # "scan" =>
          LET recs == ParseAll(log_lines)
              users == {user_counts[k].key : k \in 1..Len(user_counts)}
              ips == {ip_counts[k].key : k \in 1..Len(ip_counts)}
              userOcc == [u \in users |-> FailLinesOf(recs, "user", u)]
              ipOcc == [a \in ips |-> FailLinesOf(recs, "ip", a)]
              tu == [i \in 1..Len(report_data.top_users) |->
                        [key |-> report_data.top_users[i].user,
                         count |-> report_data.top_users[i].fail_count]]
              ti == [i \in 1..Len(report_data.top_ips) |->
                        [key |-> report_data.top_ips[i].ip,
                         count |-> report_data.top_ips[i].fail_count]]
          IN  /\ IsRanking(tu, user_counts, userOcc, TopN)
              /\ IsRanking(ti, ip_counts, ipOcc, TopN)
    /\ fw_pc # "parse" =>
          /\ (DeniedPorts = {}) = (analysis.most_targeted_port = <<>>)
          /\ DeniedPorts # {} =>
                LET p == analysis.most_targeted_port[1]
                IN  /\ p \in DeniedPorts
                    /\ analysis.most_targeted_count = Cardinality(DeniedWithPort(p))
                    /\ \A q \in DeniedPorts \ {p} :
                          RanksBefore(DeniedWithPort(p), DeniedWithPort(q))

\* six users have failed, one of them twice and not the first seen, so five
\* are tied and one of those is cut from the top 5
C2_Witness ==
    /\ auth_pc = "built"
    /\ Len(user_counts) = TopN + 1
    /\ Len(report_data.top_users) = TopN
    /\ user_counts[3].count = 2
    /\ report_data.top_users[1].user = user_counts[3].key
    /\ report_data.top_users[2].fail_count = 1
    /\ report_data.top_users[4].fail_count = 1

\* the number a text of digits and thousands separators denotes
RECURSIVE CommaVal(_, _)
CommaVal(s, acc) ==
    IF s = "" THEN acc
    ELSE IF CharAt(s, 1) = "," THEN CommaVal(SubSeq(s, 2, Len(s)), acc)
    ELSE CommaVal(SubSeq(s, 2, Len(s)), acc * 10 + DigitVal(CharAt(s, 1)))

LastToken(line) == Split(line)[Len(Split(line))]

\* the number a report line ends with
NumberAtEnd(line) == CommaVal(LastToken(line), 0)

\* the hundredths in a text "d.d%" or "d.d% ..." with one decimal
PercentHundredths(tok) ==
    LET whole == SplitOn(tok, ".")[1]
        frac == CharAt(SplitOn(tok, ".")[2], 1)
    IN  CommaVal(whole, 0) * 100 + DigitVal(frac) * 10

\* the rows of a ranked table of the text report, from line first on
RowsAgree(first, top, keyOf(_)) ==
    \A i \in 1..Len(top) :
        /\ Split(text_report[first + i - 1])[1] = keyOf(top[i])
        /\ NumberAtEnd(text_report[first + i - 1]) = top[i].fail_count

UserOf(e) == e.user
IpOf(e) == e.ip

\* C3: every metric that both the structured summary and the text report
\* give has the same numeric value in both: counts, failure rate, ranked keys
\* and counts, most targeted port and its count.
C3_ReportsAgree ==
    /\ auth_pc = "done" =>
          /\ NumberAtEnd(text_report[11]) = report_data.summary.total_logs
          /\ NumberAtEnd(text_report[12]) = report_data.summary.parsed_logs
          /\ NumberAtEnd(text_report[13]) = report_data.summary.failed_logins
          /\ PercentHundredths(LastToken(text_report[14]))
                = report_data.summary.failure_rate_percent
          /\ RowsAgree(20, report_data.top_users, UserOf)
          /\ RowsAgree(25 + Len(report_data.top_users), report_data.top_ips, IpOf)
    /\ fw_pc = "displayed" =>
          /\ NumberAtEnd(printed[5]) = analysis.total_entries
          /\ NumberAtEnd(printed[7]) = analysis.allow_count
          /\ NumberAtEnd(printed[8]) = analysis.deny_count
          /\ NumberAtEnd(printed[11]) = Len(analysis.denied_source_ips)
          /\ analysis.most_targeted_port # <<>> =>
                \E i \in 1..(Len(printed) - 1) :
                    /\ Len(Split(printed[i])) = 4
                    /\ SubSeq(Split(printed[i]), 1, 3) = <<"Most", "targeted", "port:">>
                    /\ IntParse(LastToken(printed[i])) = analysis.most_targeted_port
                    /\ Len(Split(printed[i + 1])) = 3
                    /\ Split(printed[i + 1])[1] = "Attacked"
                    /\ IntParse(Split(printed[i + 1])[2])
                          = <<analysis.most_targeted_count>>

\* C4: every entry the firewall parser builds has a non-negative port.
C4_PortNonNegative ==
    \A i \in 1..Len(log_entries) : log_entries[i].port >= 0

\* the firewall lines read so far that have at least 6 tokens and an
\* integer as sixth token
GoodFwLines ==
    {i \in 1..Len(fw_lines) :
        /\ Len(Split(fw_lines[i])) >= 6
        /\ IntParse(Split(fw_lines[i])[6]) # <<>>}

\* the k-th smallest element of a set of numbers
RECURSIVE Nth(_, _)
Nth(set, k) ==
    LET least == CHOOSE x \in set : \A y \in set : x <= y
    IN  IF k = 1 THEN least ELSE Nth(set \ {least}, k - 1)

\* C5: the entries are exactly the lines with at least 6 tokens and an
\* integer port, one complete entry each, in input order; short lines and
\* lines with a non-integer port add nothing and stop nothing.
C5_BadLinesSkipped ==
    script = "log_analyzer" =>
       /\ Len(log_entries) = Cardinality(GoodFwLines)
       /\ \A k \in 1..Len(log_entries) :
             LET parts == Split(fw_lines[Nth(GoodFwLines, k)])
                 entry == log_entries[k]
             IN  /\ DOMAIN entry = {"date", "time", "action", "source_ip",
                                    "dest_ip", "port"}
                 /\ entry.date = parts[1]
                 /\ entry.time = parts[2]
                 /\ entry.action = Upper(parts[3])
                 /\ entry.source_ip = parts[4]
                 /\ entry.dest_ip = parts[5]
                 /\ <<entry.port>> = IntParse(parts[6])

\* a short line, then a line with a non-integer port, then a line that
\* parses: one entry, built from the third line
C5_Witness ==
    /\ Len(fw_lines) = 3
    /\ Len(Split(fw_lines[1])) \in 1..5
    /\ Len(Split(fw_lines[2])) >= 6
    /\ IntParse(Split(fw_lines[2])[6]) = <<>>
    /\ Len(log_entries) = 1
    /\ log_entries[1].date = Split(fw_lines[3])[1]

\* C6: a line parse_log_line accepts gives a record whose timestamp is the
\* first token, a space, the second token, whatever items follow; a line with
\* fewer than 3 tokens, no '-' in the first or no ':' in the second token
\* gives no record.
C6_TimestampFromTokens ==
    \A i \in 1..Len(log_lines) :
        LET parts == Split(log_lines[i])
            rec == parse_log_line(log_lines[i])
            shaped == /\ Len(parts) >= 3
                      /\ Contains(parts[1], "-")
                      /\ Contains(parts[2], ":")
        IN  /\ ~shaped => rec = <<>>
            /\ rec # <<>> => rec[1].timestamp = parts[1] \o " " \o parts[2]

Severities == {"CRITICAL", "HIGH", "MEDIUM", "LOW"}

\* the threats of the loaded document
LoadedThreats == ThreatsOf(threat_data)

\* C7: the analysis of every document has the keys CRITICAL, HIGH, MEDIUM and
\* LOW in severity_counts, with 0 for a severity that none of the threats
\* carries.
C7_SeveritiesSeeded ==
    threat_pc = "returned" =>
       \A k \in Severities :
          /\ k \in DOMAIN threat_analysis.severity_counts
          /\ (\A i \in 1..Len(LoadedThreats) :
                 /\ "severity" \in DOMAIN LoadedThreats[i]
                 /\ Upper(LoadedThreats[i].severity.s) # k)
               => threat_analysis.severity_counts[k] = 0

\* the category a threat belongs to: its severity in upper case, UNKNOWN
\* without one
CategoryOf(threat) ==
    IF "severity" \in DOMAIN threat THEN Upper(threat.severity.s) ELSE "UNKNOWN"

\* C8: each threat is counted under its upper-cased severity, under UNKNOWN
\* when it has none, and nowhere else.
C8_SeverityKey ==
    threat_pc = "returned" =>
       LET counts == threat_analysis.severity_counts
           keys == DOMAIN counts \cup {CategoryOf(LoadedThreats[i]) :
                                          i \in 1..Len(LoadedThreats)}
       IN  \A k \in keys :
              GetOr(counts, k, 0)
                 = Cardinality({i \in 1..Len(LoadedThreats) :
                                   CategoryOf(LoadedThreats[i]) = k})

\* the addresses of a threat whose indicators.ips is a list
ListedIps(threat) ==
    IF /\ "indicators" \in DOMAIN threat
       /\ threat.indicators.t = "dict"
       /\ "ips" \in DOMAIN threat.indicators.d
       /\ threat.indicators.d.ips.t = "list"
    THEN Range(threat.indicators.d.ips.items)
    ELSE {}

\* C9: a threat without indicators, without indicators.ips or with an ips
\* value that is not a list adds no address and raises nothing: the unique
\* addresses are the union of the ips lists.
C9_OnlyListedIps ==
    /\ threat_pc # "raised"
    /\ threat_pc = "returned" =>
          Range(threat_analysis.unique_ips)
             = UNION {ListedIps(LoadedThreats[i]) : i \in 1..Len(LoadedThreats)}

\* C10: active_exploits lists exactly the threats whose active_exploit is
\* the boolean true, and fail_count counts exactly the parsed lines whose
\* status is "FAIL"; no other value qualifies.
C10_FlagMustMatch ==
    /\ threat_pc = "returned" =>
          Len(threat_analysis.active_exploits)
             = Cardinality({i \in 1..Len(LoadedThreats) :
                              /\ "active_exploit" \in DOMAIN LoadedThreats[i]
                              /\ LoadedThreats[i].active_exploit = Bool(TRUE)})
    /\ script = "auth_scanner" =>
          fail_count = Cardinality(FailLinesOf(ParseAll(log_lines), "status", "FAIL"))

\* seq is in ascending order without repetition
StrictlyAscending(seq) ==
    \A i \in 1..(Len(seq) - 1) : StrLess(seq[i], seq[i + 1])

\* C11: the address list of the structured summary holds every observed
\* address once, in ascending lexicographic order, and the number of unique
\* addresses reported with it is its length.
C11_UniqueSortedIps ==
    /\ threat_pc = "returned" =>
          /\ UNION {ListedIps(LoadedThreats[i]) : i \in 1..Len(LoadedThreats)}
                \subseteq Range(threat_analysis.unique_ips)
          /\ StrictlyAscending(threat_analysis.unique_ips)
          /\ threat_analysis.total_ips = Len(threat_analysis.unique_ips)
    /\ fw_pc # "parse" =>
          /\ Range(analysis.denied_source_ips)
                = {log_entries[i].source_ip :
                     i \in {j \in 1..Len(log_entries) : log_entries[j].action = "DENY"}}
          /\ StrictlyAscending(analysis.denied_source_ips)

\* the datetimes of the entries whose date and time strptime accepts
ParsedDts(entries) ==
    {strptime(entries[i].date, entries[i].time)[1] :
        i \in {j \in 1..Len(entries) :
                  strptime(entries[j].date, entries[j].time) # <<>>}}

\* entries with the entries at i and j exchanged
Swap(entries, i, j) ==
    [k \in 1..Len(entries) |->
        IF k = i THEN entries[j] ELSE IF k = j THEN entries[i] ELSE entries[k]]

\* C12: first and last of the firewall time range are the least and the
\* greatest of the timestamps that parse, entries that do not parse are left
\* out, both are "N/A" when none parses, and exchanging any two entries
\* gives the same range.
C12_TimeRange ==
    fw_pc # "parse" =>
       LET dts == ParsedDts(log_entries)
       IN  /\ dts = {} => /\ analysis.time_range.first = "N/A"
                          /\ analysis.time_range.last = "N/A"
           /\ dts # {} =>
                 /\ \E lo \in dts :
                       /\ \A d \in dts : ~DtLess(d, lo)
                       /\ analysis.time_range.first = strftime(lo)
                 /\ \E hi \in dts :
                       /\ \A d \in dts : ~DtLess(hi, d)
                       /\ analysis.time_range.last = strftime(hi)
           /\ analysis.total_entries = Len(log_entries)
           /\ \A i, j \in 1..Len(log_entries) :
                 i < j => analyze_logs(Swap(log_entries, i, j)).time_range
                             = analysis.time_range

\* three entries: the first is the latest, the second has no valid date,
\* the third is the earliest
C12_Witness ==
    /\ fw_pc = "analyzed"
    /\ Len(log_entries) = 3
    /\ strptime(log_entries[2].date, log_entries[2].time) = <<>>
    /\ strptime(log_entries[1].date, log_entries[1].time) # <<>>
    /\ strptime(log_entries[3].date, log_entries[3].time) # <<>>
    /\ DtLess(strptime(log_entries[3].date, log_entries[3].time)[1],
              strptime(log_entries[1].date, log_entries[1].time)[1])
    /\ analysis.time_range.first
          = strftime(strptime(log_entries[3].date, log_entries[3].time)[1])
    /\ analysis.time_range.last
          = strftime(strptime(log_entries[1].date, log_entries[1].time)[1])

StartsWith(s, prefix) ==
    Len(s) >= Len(prefix) /\ SubSeq(s, 1, Len(prefix)) = prefix

\* the lines of a report that start with prefix
LinesWith(lines, prefix) == {i \in 1..Len(lines) : StartsWith(lines[i], prefix)}

\* C13: every percentage field is 0 when its denominator is zero, and nothing
\* is raised: the failure rate of the auth report (JSON field and text line)
\* over zero parsed lines, the deny rate of the firewall summary over zero
\* entries, the critical-severity rate of both threat analyses and of the
\* first variant's report over zero threats, and each per-severity rate of
\* the second variant's report over zero threats.
C13_ZeroDenominator ==
    /\ (auth_pc # "scan" /\ parsed_lines = 0) =>
          report_data.summary.failure_rate_percent = 0
    /\ (auth_pc = "done" /\ parsed_lines = 0) =>
          /\ LinesWith(text_report, "Failure Rate:") # {}
          /\ \A i \in LinesWith(text_report, "Failure Rate:") :
                text_report[i] = "Failure Rate:      0.0%"
    /\ (fw_pc = "displayed" /\ analysis.total_entries = 0) =>
          /\ LinesWith(printed, "(") # {}
          /\ \A i \in LinesWith(printed, "(") :
                printed[i] = "(0.0% of traffic was denied)"
    /\ (threat_pc # "load" /\ Len(LoadedThreats) = 0) =>
          /\ threat_pc \in {"loop", "returned", "reported"}
          /\ threat_error = ""
    /\ (threat_pc \in {"returned", "reported"} /\ Len(LoadedThreats) = 0) =>
          /\ threat_analysis.critical_percentage.num = 0
          /\ threat_analysis.critical_percentage.den # 0
    /\ (script = "threat_parser" /\ threat_pc = "reported"
          /\ Len(LoadedThreats) = 0) =>
          /\ LinesWith(report_lines, "\nCRITICAL threats:") # {}
          /\ \A i \in LinesWith(report_lines, "\nCRITICAL threats:") :
                report_lines[i] = "\nCRITICAL threats: 0.0%"
    /\ (script = "threats_parser" /\ threat_pc = "reported"
          /\ Len(LoadedThreats) = 0) =>
          /\ \A k \in DOMAIN threat_analysis.severity_counts :
                LinesWith(report_lines, PadRight(k, 10) \o ":") # {}
          /\ \A i \in 1..Len(report_lines) :
                (\E k \in DOMAIN threat_analysis.severity_counts :
                    StartsWith(report_lines[i], PadRight(k, 10) \o ":"))
                  => LET n == Len(report_lines[i])
                     IN  SubSeq(report_lines[i], n - 5, n) = "(0.0%)"

\* C13 witness: the second variant has reported on a feed whose threats list
\* is empty
C13_Witness ==
    /\ script = "threats_parser"
    /\ threat_pc = "reported"
    /\ "threats" \in DOMAIN threat_data
    /\ threat_analysis.total_threats = 0
    /\ LinesWith(report_lines, "CRITICAL  : 0 threats (0.0%)") # {}

\* C14: the analysis of a document that is a mapping without a threats key
\* raises nothing and returns total_threats = 0, no unique IPs, no active
\* exploits and a critical percentage of 0, in both variants; the loop of
\* analyze_threats has nothing to iterate over.
C14_NoThreatsKey ==
    (/\ script \in {"threat_parser", "threats_parser"}
     /\ threat_pc # "load"
     /\ "threats" \notin DOMAIN threat_data) =>
        /\ threat_pc # "raised"
        /\ threat_error = ""
        /\ threat_pc = "loop" => threat_i = Len(ThreatsOf(threat_data))
        /\ threat_pc \in {"returned", "reported"} =>
              /\ threat_analysis.total_threats = 0
              /\ threat_analysis.unique_ips = <<>>
              /\ threat_analysis.total_ips = 0
              /\ threat_analysis.active_exploits = <<>>
              /\ threat_analysis.critical_percentage.num = 0
              /\ threat_analysis.critical_percentage.den # 0

\* C14 witness: the first variant has returned its analysis of a document
\* that has no threats key
C14_Witness ==
    /\ script = "threat_parser"
    /\ threat_pc = "returned"
    /\ "threats" \notin DOMAIN threat_data
    /\ threat_analysis.total_threats = 0

\* the sum of the counts of a Counter
RECURSIVE SumCounts(_)
SumCounts(counter) ==
    IF counter = <<>> THEN 0 ELSE Head(counter).count + SumCounts(Tail(counter))

\* every key of counter before is in counter after, at the same place, with
\* a count that is no smaller
CounterGrows(before, after) ==
    /\ Len(before) <= Len(after)
    /\ \A i \in 1..Len(before) :
          /\ after[i].key = before[i].key
          /\ after[i].count >= before[i].count

\* the counters of process_logs in one state
CountersOrdered ==
    /\ SumCounts(user_counts) <= fail_count
    /\ SumCounts(ip_counts) <= fail_count
    /\ fail_count <= parsed_lines
    /\ parsed_lines <= total_lines
    /\ total_lines = Len(log_lines)
    /\ \A i \in 1..Len(user_counts) : user_counts[i].count > 0
    /\ \A i \in 1..Len(ip_counts) : ip_counts[i].count > 0

\* the counters of process_logs from one line to the next
CountersStep ==
    /\ total_lines' >= total_lines
    /\ parsed_lines' >= parsed_lines
    /\ fail_count' >= fail_count
    /\ CounterGrows(user_counts, user_counts')
    /\ CounterGrows(ip_counts, ip_counts')
    /\ log_lines' # log_lines =>
          LET parsed == parse_log_line(log_lines'[Len(log_lines')])
          IN  (parsed = <<>> \/ Get(parsed[1], "status") # <<"FAIL">>) =>
                 /\ fail_count' = fail_count
                 /\ user_counts' = user_counts
                 /\ ip_counts' = ip_counts

\* C15: after every line consumed by process_logs, sum of user_counts <=
\* fail_count, sum of ip_counts <= fail_count, fail_count <= parsed_lines <=
\* total_lines, and no key is stored with count 0; from one line to the next
\* no counter decreases, and a line that is rejected or whose status is not
\* "FAIL" leaves fail_count, user_counts and ip_counts as they were.
C15_CounterInvariants == [](CountersOrdered) /\ [][CountersStep]_vars

\* C15 witness: three lines consumed, two parsed, one of them a failure that
\* names neither a user nor an address
C15_Witness ==
    /\ script = "auth_scanner"
    /\ total_lines = 3
    /\ parsed_lines = 2
    /\ fail_count = 1
    /\ SumCounts(user_counts) = 0
    /\ SumCounts(ip_counts) = 0

====
